---- MODULE Spec2Model ----
(***************************************************************************)
(* Model of the GovBot vote counter: the snapshot store and the chain      *)
(* reconciliation of gqa/graphql_query_aggregator.py, and the memo codec,  *)
(* filter, sequencing and tally of vote_counter/vote_counter.py.           *)
(*                                                                         *)
(* Text is a sequence of Unicode code points, bytes are numbers 0..255.    *)
(* A transaction is a function from field names to values; a field the    *)
(* JSON object lacks is a name outside its DOMAIN.                         *)
(***************************************************************************)
EXTENDS Integers, Sequences, FiniteSets, TLC

VARIABLES
    pc,                       \* position of the run that is being modelled
    source,                   \* the operation that produced `transactions`
    clock,                    \* datetime.now() of the next store
    db,                       \* rows of table graphql_responses, in insertion order
    responses,                \* the list handed to _get_transactions_from_response
    start_date,               \* window start, in ticks (TicksPerMs ticks = 1 ms)
    end_date,                 \* window end, in ticks
    recent_blocks_to_ignore,  \* the reorg margin k
    transactions,             \* the transaction list a source returned
    filtered,                 \* result of filter_transactions
    sequenced,                \* result of sequence_transactions
    vote_counts,              \* result of count_votes
    error,                    \* the exception that ended the run, or NoError
    memo,                     \* codec run: the memo string given
    message,                  \* codec run: what decode_memo returned
    valid,                    \* codec run: what is_valid_memo returned
    client,                   \* the object injected as the pipeline's graphql_client
    calls,                    \* the calls run() made on its client and on save_results
    exit_status,              \* sys.exit status of the count command, once pc = "exited"
    previous                  \* the tally of an earlier pass over the same transactions

vars == <<pc, source, clock, db, responses, start_date, end_date, recent_blocks_to_ignore,
          transactions, filtered, sequenced, vote_counts, error, memo, message, valid,
          client, calls, exit_status, previous>>

(***************************************************************************)
(* Bounds of the model.                                                    *)
(***************************************************************************)
MaxPieces == 3        \* a decoded message is built from at most this many pieces
MaxSnapshots == 2     \* stored snapshots
MaxHeight == 3        \* block heights 1..MaxHeight
MaxMargin == 2        \* reorg margin k in -1..MaxMargin
MaxTxs == 2           \* transactions in a pipeline input
TicksPerMs == 2       \* resolution of the window below one millisecond

Min(a, b) == IF a < b THEN a ELSE b
Max(a, b) == IF a > b THEN a ELSE b

\* s[lo:hi] of Python, with 1-based inclusive bounds: the bounds are clipped
Slice(s, lo, hi) == SubSeq(s, Max(lo, 1), Min(hi, Len(s)))

None == "None"
NoError == [type |-> "none"]

(***************************************************************************)
(* Python text primitives, on code points.                                 *)
(***************************************************************************)
\* str.isspace() of one character, for code points below 0x800
IsSpace(c) == c \in (9..13) \cup (28..32) \cup {133, 160}

\* str.isdecimal() of one character: the digits int() accepts
IsDecimal(c) == c \in (48..57) \cup (1632..1641) \cup (1776..1785) \cup (1984..1993)

\* str.isdigit() of one character: the decimals and the superscript digits
IsDigitChar(c) == IsDecimal(c) \/ c \in {178, 179, 185}

\* str.isdigit(): at least one character, and all of them digits
isdigit(s) == Len(s) > 0 /\ \A i \in 1..Len(s) : IsDigitChar(s[i])

\* str.split() with no argument: the maximal runs of non-whitespace
RECURSIVE SplitFrom(_, _, _)
SplitFrom(s, i, cur) ==
    IF i > Len(s) THEN (IF cur = <<>> THEN <<>> ELSE <<cur>>)
    ELSE IF IsSpace(s[i])
         THEN (IF cur = <<>> THEN <<>> ELSE <<cur>>) \o SplitFrom(s, i + 1, <<>>)
         ELSE SplitFrom(s, i + 1, Append(cur, s[i]))

split(s) == SplitFrom(s, 1, <<>>)

\* the value of a decimal character as an ASCII digit
AsciiDigit(c) ==
    IF c \in 48..57 THEN c
    ELSE IF c \in 1632..1641 THEN c - 1632 + 48
    ELSE IF c \in 1776..1785 THEN c - 1776 + 48
    ELSE c - 1984 + 48

\* the digits part of an int() literal: decimals, single underscores between them
IsIntBody(b) ==
    /\ Len(b) > 0
    /\ \A i \in 1..Len(b) :
          \/ IsDecimal(b[i])
          \/ /\ b[i] = 95
             /\ i > 1 /\ i < Len(b)
             /\ IsDecimal(b[i - 1]) /\ IsDecimal(b[i + 1])

\* int() of a text of ASCII digits, and the decimal text of a natural number
RECURSIVE int(_)
int(s) ==
    IF s = <<>> THEN 0
    ELSE 10 * int(SubSeq(s, 1, Len(s) - 1)) + (s[Len(s)] - 48)

RECURSIVE Decimal(_)
Decimal(n) == IF n < 10 THEN <<48 + n>> ELSE Decimal(n \div 10) \o <<48 + (n % 10)>>

RECURSIVE StripZeros(_)
StripZeros(d) == IF Len(d) > 1 /\ d[1] = 48 THEN StripZeros(Tail(d)) ELSE d

\* str(int(s)) for a token without whitespace: ok = FALSE is ValueError.
\* The integer is kept as its canonical decimal text, as str() prints it.
IntStr(s) ==
    LET signed == Len(s) > 0 /\ s[1] \in {43, 45}
        body == IF signed THEN Tail(s) ELSE s
        digits == SelectSeq(body, IsDecimal)
        canon == StripZeros([i \in 1..Len(digits) |-> AsciiDigit(digits[i])])
        neg == signed /\ s[1] = 45 /\ canon # <<48>>
    IN  IF ~IsIntBody(body) THEN [ok |-> FALSE, str |-> <<>>, negative |-> FALSE]
        ELSE [ok |-> TRUE,
              str |-> IF neg THEN <<45>> \o canon ELSE canon,
              negative |-> neg]

\* bytes.decode("utf-8") for bytes below 0xE0 and the never-valid bytes from 0xF5;
\* the three- and four-byte forms (lead bytes 0xE0..0xF4) are not in the model's inputs
RECURSIVE Utf8From(_, _)
Utf8From(b, i) ==
    IF i > Len(b) THEN [ok |-> TRUE, text |-> <<>>]
    ELSE IF b[i] < 128
         THEN LET r == Utf8From(b, i + 1)
              IN  [ok |-> r.ok, text |-> <<b[i]>> \o r.text]
    ELSE IF b[i] \in 194..223 /\ i < Len(b) /\ b[i + 1] \in 128..191
         THEN LET r == Utf8From(b, i + 2)
              IN  [ok |-> r.ok, text |-> <<(b[i] - 192) * 64 + (b[i + 1] - 128)>> \o r.text]
    ELSE [ok |-> FALSE, text |-> <<>>]

Utf8Decode(b) == Utf8From(b, 1)

\* str.encode("utf-8") for code points below 0x800
RECURSIVE Utf8Encode(_)
Utf8Encode(s) ==
    IF s = <<>> THEN <<>>
    ELSE (IF s[1] < 128 THEN <<s[1]>>
          ELSE <<192 + (s[1] \div 64), 128 + (s[1] % 64)>>) \o Utf8Encode(Tail(s))

(***************************************************************************)
(* Memo codec.  A memo string is given by what base58 decoding makes of    *)
(* it: whether every character is in the base58 alphabet, and the bytes    *)
(* (payload followed by the checksum).  The double SHA-256 of the library  *)
(* is a small checksum over the payload.                                   *)
(***************************************************************************)
ChecksumLen == 4
MemoVersionByte == 20     \* 0x14
MemoWidth == 4            \* a memo's text field is zero-padded to this width

RECURSIVE WeightedSum(_, _, _)
WeightedSum(b, i, k) ==
    IF i > Len(b) THEN 0 ELSE ((i + k) * b[i] + WeightedSum(b, i + 1, k)) % 256

Digest(payload) ==
    [k \in 1..ChecksumLen |-> (WeightedSum(payload, 1, k) + Len(payload) + k) % 256]

\* base58.b58decode_check: ok = FALSE is ValueError
b58decode_check(m) ==
    IF ~m.b58 THEN [ok |-> FALSE, bytes |-> <<>>]
    ELSE LET n == Len(m.data)
             result == Slice(m.data, 1, n - ChecksumLen)
             check == Slice(m.data, n - ChecksumLen + 1, n)
         IN  IF check = Digest(result)
             THEN [ok |-> TRUE, bytes |-> result]
             ELSE [ok |-> FALSE, bytes |-> <<>>]

\* VoteCountingPipeline.decode_memo: every exception gives the empty string
decode_memo_mut_any_version(m) ==
    LET r == b58decode_check(m)
        decoded == r.bytes
    IN  IF ~r.ok THEN <<>>
        ELSE IF Len(decoded) < 3 THEN <<>>
        ELSE LET length == decoded[3]
                 u == Utf8Decode(Slice(decoded, 4, 3 + length))
             IN  IF u.ok THEN u.text ELSE <<>>

decode_memo(m) ==
    LET r == b58decode_check(m)
        decoded == r.bytes
    IN  IF ~r.ok THEN <<>>
        ELSE IF Len(decoded) < 1 THEN <<>>                        \* decoded[0]: IndexError
        ELSE IF decoded[1] # MemoVersionByte THEN <<>>            \* ValueError raised
        ELSE IF Len(decoded) < 3 THEN <<>>                        \* decoded[2]: IndexError
        ELSE LET length == decoded[3]
                 u == Utf8Decode(Slice(decoded, 4, 3 + length))
             IN  IF u.ok THEN u.text ELSE <<>>                    \* UnicodeDecodeError

\* VoteCountingPipeline.is_valid_memo
is_valid_memo(m) ==
    LET parts == split(decode_memo(m))
    IN  /\ Len(parts) = 2
        /\ parts[1] \in {<<121, 101, 115>>, <<110, 111>>}         \* "yes", "no"
        /\ isdigit(parts[2])

\* The memo format of the chain: version, tag, length, text, zero padding, checksum
Pad(n) == [i \in 1..n |-> 0]

MemoOf(version, length, body) ==
    LET payload == <<version, 1, length>> \o body
    IN  [b58 |-> TRUE, data |-> payload \o Digest(payload)]

EncodeMemo(text) ==
    LET b == Utf8Encode(text)
    IN  MemoOf(MemoVersionByte, Len(b), b \o Pad(Max(0, MemoWidth - Len(b))))

(***************************************************************************)
(* Chain data.  A block is [blockHeight, date, userCommands]; a response   *)
(* is a function with key "bestChain" and, when the caller put one there,  *)
(* key "execution_timestamp".                                              *)
(***************************************************************************)
BURN_ADDRESS == "B62qiburn"
OtherAddress == "B62qother"
SenderA == "B62qA"
SenderB == "B62qB"

Yes == <<121, 101, 115>>
No == <<110, 111>>
Space == <<32>>

\* a tx with a field added or overwritten: tx[field] = value
SetField(tx, field, value) ==
    [f \in DOMAIN tx \cup {field} |-> IF f = field THEN value ELSE tx[f]]

\* a tx without a field
DropField(tx, field) == [f \in DOMAIN tx \ {field} |-> tx[f]]

\* a payment to the burn address carrying a vote, the nonce as decimal text
VoteTx(id, sender, text, nonce) ==
    [id |-> id, to |-> BURN_ADDRESS, from |-> sender, amount |-> "1", fee |-> "1",
     memo |-> EncodeMemo(text), nonce |-> Decimal(nonce), kind |-> "PAYMENT"]

HasKey(r, k) == k \in DOMAIN r

\* r.get("execution_timestamp", ""): the empty string sorts below every timestamp
ExecutionKey(r) == IF HasKey(r, "execution_timestamp") THEN r["execution_timestamp"] ELSE 0

\* sorted(responses, key=..., reverse=True) as the list of indices into responses:
\* a stable sort, so equal keys keep their order also when reversed
SortedResponses(rs) ==
    LET n == Len(rs)
        rank(i) == Cardinality({j \in 1..n :
                       \/ ExecutionKey(rs[j]) > ExecutionKey(rs[i])
                       \/ ExecutionKey(rs[j]) = ExecutionKey(rs[i]) /\ j < i})
    IN  [p \in 1..n |-> CHOOSE i \in 1..n : rank(i) = p - 1]

\* the places <<response, block>> in the order the collecting loops visit them
RECURSIVE Places(_, _, _)
Places(rs, order, p) ==
    IF p > Len(order) THEN <<>>
    ELSE [b \in 1..Len(rs[order[p]]["bestChain"]) |-> <<order[p], b>>]
         \o Places(rs, order, p + 1)

BlockAt(rs, place) == rs[place[1]]["bestChain"][place[2]]

\* all_blocks: per height the first place visited ("if block_height not in all_blocks")
AllBlocks(rs, visit) ==
    LET hs == {BlockAt(rs, visit[i]).blockHeight : i \in 1..Len(visit)}
    IN  [h \in hs |->
            visit[CHOOSE i \in 1..Len(visit) :
                    /\ BlockAt(rs, visit[i]).blockHeight = h
                    /\ \A j \in 1..(i - 1) : BlockAt(rs, visit[j]).blockHeight # h]]

\* sorted(all_blocks.values(), key=height): the places by height ascending
SortedBlocks(all_blocks) ==
    LET hs == DOMAIN all_blocks
    IN  [p \in 1..Cardinality(hs) |->
            all_blocks[CHOOSE h \in hs : Cardinality({g \in hs : g < h}) = p - 1]]

\* the continuity loop: the error of the first adjacent pair that is not prev + 1
DiscontinuityMutBelowOnly(rs, sorted_blocks) ==
    LET H(i) == BlockAt(rs, sorted_blocks[i]).blockHeight
        bad == {i \in 2..Len(sorted_blocks) : H(i) < H(i - 1) + 1}
    IN  IF bad = {} THEN NoError
        ELSE LET i == CHOOSE k \in bad : \A m \in bad : k <= m
             IN  [type |-> "BlockDiscontinuityError", prev |-> H(i - 1), curr |-> H(i)]

DiscontinuityMutNeedsBlock(rs, sorted_blocks) ==
    LET H(i) == BlockAt(rs, sorted_blocks[i]).blockHeight
        bad == {i \in 2..Len(sorted_blocks) : H(i) # H(i - 1) + 1}
    IN  IF sorted_blocks = <<>>
        THEN [type |-> "BlockDiscontinuityError", prev |-> 0, curr |-> 0]
        ELSE IF bad = {} THEN NoError
        ELSE LET i == CHOOSE k \in bad : \A m \in bad : k <= m
             IN  [type |-> "BlockDiscontinuityError", prev |-> H(i - 1), curr |-> H(i)]

Discontinuity(rs, sorted_blocks) ==
    LET H(i) == BlockAt(rs, sorted_blocks[i]).blockHeight
        bad == {i \in 2..Len(sorted_blocks) : H(i) # H(i - 1) + 1}
    IN  IF bad = {} THEN NoError
        ELSE LET i == CHOOSE k \in bad : \A m \in bad : k <= m
             IN  [type |-> "BlockDiscontinuityError", prev |-> H(i - 1), curr |-> H(i)]

\* sorted_blocks[:-k] if k > 0 else sorted_blocks
TrimRecentMutOffByOne(sorted_blocks, k) ==
    IF k > 0 THEN Slice(sorted_blocks, 1, Len(sorted_blocks) - k + 1) ELSE sorted_blocks

TrimRecent(sorted_blocks, k) ==
    IF k > 0 THEN Slice(sorted_blocks, 1, Len(sorted_blocks) - k) ELSE sorted_blocks

\* start_time.timestamp() * 1000 <= block_timestamp <= end_time.timestamp() * 1000
InRange(date, start, end) ==
    start <= date * TicksPerMs /\ date * TicksPerMs <= end

\* the transactions of a block, each with tx["blockDate"] = block_timestamp
Annotated(block) ==
    [i \in 1..Len(block.userCommands) |->
        SetField(block.userCommands[i], "blockDate", block.date)]

RECURSIVE Emit(_, _, _, _, _)
Emit(rs, kept, i, start, end) ==
    IF i > Len(kept) THEN <<>>
    ELSE (IF InRange(BlockAt(rs, kept[i]).date, start, end)
          THEN Annotated(BlockAt(rs, kept[i])) ELSE <<>>)
         \o Emit(rs, kept, i + 1, start, end)

\* the responses after the call: the emitted blocks' transactions carry blockDate
Written(rs, kept, start, end) ==
    LET hit == {kept[i] : i \in {j \in 1..Len(kept) :
                                   InRange(BlockAt(rs, kept[j]).date, start, end)}}
        block(r, b) == rs[r]["bestChain"][b]
    IN  [r \in 1..Len(rs) |->
            SetField(rs[r], "bestChain",
                [b \in 1..Len(rs[r]["bestChain"]) |->
                    IF <<r, b>> \in hit
                    THEN [blockHeight |-> block(r, b).blockHeight,
                          date |-> block(r, b).date,
                          userCommands |-> Annotated(block(r, b))]
                    ELSE block(r, b)])]

\* GraphQLQueryAggregator._get_transactions_from_response
get_transactions_from_response_mut_trim_first(rs, start, end, k) ==
    LET order == SortedResponses(rs)
        all_blocks == AllBlocks(rs, Places(rs, order, 1))
        sorted_blocks == SortedBlocks(all_blocks)
        kept == TrimRecent(sorted_blocks, k)
        gap == Discontinuity(rs, kept)
    IN  IF gap # NoError
        THEN [ok |-> FALSE, error |-> gap, transactions |-> None, responses |-> rs]
        ELSE [ok |-> TRUE, error |-> NoError,
              transactions |-> Emit(rs, kept, 1, start, end),
              responses |-> Written(rs, kept, start, end)]

_get_transactions_from_response(rs, start, end, k) ==
    LET order == SortedResponses(rs)
        all_blocks == AllBlocks(rs, Places(rs, order, 1))
        sorted_blocks == SortedBlocks(all_blocks)
        gap == Discontinuity(rs, sorted_blocks)
        kept == TrimRecent(sorted_blocks, k)
    IN  IF gap # NoError
        THEN [ok |-> FALSE, error |-> gap, transactions |-> None, responses |-> rs]
        ELSE [ok |-> TRUE, error |-> NoError,
              transactions |-> Emit(rs, kept, 1, start, end),
              responses |-> Written(rs, kept, start, end)]

(***************************************************************************)
(* Vote counting pipeline.                                                 *)
(***************************************************************************)
REQUIRED_TX_FIELDS == {"id", "to", "from", "amount", "fee", "memo", "nonce", "kind"}

\* VoteCountingPipeline.__ensure_required_fields
ensure_required_fields(tx) == \A field \in REQUIRED_TX_FIELDS : HasKey(tx, field)

RECURSIVE Concat(_)
Concat(ss) == IF ss = <<>> THEN <<>> ELSE Head(ss) \o Concat(Tail(ss))

\* VoteCountingPipeline.get_transactions on the query result: the transactions
\* with every required field, each with tx["blockDate"] = block_date
get_transactions(result) ==
    Concat([b \in 1..Len(result["bestChain"]) |->
               SelectSeq(Annotated(result["bestChain"][b]), ensure_required_fields)])

\* self.start_date <= utc_date <= self.end_date
InWindow(block_date, start, end) ==
    start <= block_date * TicksPerMs /\ block_date * TicksPerMs <= end

KeyError(key) == [type |-> "KeyError", key |-> key]
ValueError == [type |-> "ValueError"]

\* the first of the keys, in the order the code reads them, that tx lacks
FirstMissing(tx, keys) ==
    LET miss == {i \in 1..Len(keys) : ~HasKey(tx, keys[i])}
    IN  IF miss = {} THEN None ELSE keys[CHOOSE i \in miss : \A j \in miss : i <= j]

\* one round of the loop of filter_transactions: the transaction is skipped,
\* kept (as the record appended to filtered) or the lookup of a key raises
FilterOneMutIgnoresKind(tx, start, end) ==
    IF ~HasKey(tx, "blockDate") THEN [act |-> "raise", error |-> KeyError("blockDate")]
    ELSE IF ~HasKey(tx, "to") THEN [act |-> "skip"]
    ELSE IF tx["to"] # BURN_ADDRESS THEN [act |-> "skip"]
    ELSE IF ~InWindow(tx["blockDate"], start, end) THEN [act |-> "skip"]
    ELSE IF ~HasKey(tx, "memo") THEN [act |-> "raise", error |-> KeyError("memo")]
    ELSE IF ~is_valid_memo(tx["memo"]) THEN [act |-> "skip"]
    ELSE LET miss == FirstMissing(tx, <<"id", "from", "amount", "memo", "nonce">>)
         IN  IF miss # None THEN [act |-> "raise", error |-> KeyError(miss)]
             ELSE [act |-> "keep",
                   tx |-> [id |-> tx["id"], from |-> tx["from"], amount |-> tx["amount"],
                           memo |-> decode_memo(tx["memo"]), nonce |-> int(tx["nonce"])]]

FilterOne(tx, start, end) ==
    IF ~HasKey(tx, "blockDate") THEN [act |-> "raise", error |-> KeyError("blockDate")]
    ELSE IF ~HasKey(tx, "to") THEN [act |-> "skip"]
    ELSE IF tx["to"] # BURN_ADDRESS THEN [act |-> "skip"]
    ELSE IF ~InWindow(tx["blockDate"], start, end) THEN [act |-> "skip"]
    ELSE IF ~HasKey(tx, "kind") THEN [act |-> "raise", error |-> KeyError("kind")]
    ELSE IF tx["kind"] # "PAYMENT" THEN [act |-> "skip"]
    ELSE IF ~HasKey(tx, "memo") THEN [act |-> "raise", error |-> KeyError("memo")]
    ELSE IF ~is_valid_memo(tx["memo"]) THEN [act |-> "skip"]
    ELSE LET miss == FirstMissing(tx, <<"id", "from", "amount", "memo", "nonce">>)
         IN  IF miss # None THEN [act |-> "raise", error |-> KeyError(miss)]
             ELSE [act |-> "keep",
                   tx |-> [id |-> tx["id"], from |-> tx["from"], amount |-> tx["amount"],
                           memo |-> decode_memo(tx["memo"]), nonce |-> int(tx["nonce"])]]

\* VoteCountingPipeline.filter_transactions: the first raise ends the loop
filter_transactions_mut_skips_seen(txs, start, end) ==
    LET one(i) == FilterOne(txs[i], start, end)
        raises == {i \in 1..Len(txs) : one(i).act = "raise"}
    IN  IF raises # {}
        THEN [ok |-> FALSE, filtered |-> None,
              error |-> one(CHOOSE i \in raises : \A j \in raises : i <= j).error]
        ELSE [ok |-> TRUE, error |-> NoError,
              filtered |-> Concat([i \in 1..Len(txs) |->
                              IF one(i).act = "keep" /\ ~previous.ran
                              THEN <<one(i).tx>> ELSE <<>>])]

filter_transactions(txs, start, end) ==
    LET one(i) == FilterOne(txs[i], start, end)
        raises == {i \in 1..Len(txs) : one(i).act = "raise"}
    IN  IF raises # {}
        THEN [ok |-> FALSE, filtered |-> None,
              error |-> one(CHOOSE i \in raises : \A j \in raises : i <= j).error]
        ELSE [ok |-> TRUE, error |-> NoError,
              filtered |-> Concat([i \in 1..Len(txs) |->
                              IF one(i).act = "keep" THEN <<one(i).tx>> ELSE <<>>])]

\* VoteCountingPipeline.sequence_transactions: the senders in the order of their
\* first transaction, each sender's transactions by nonce, ties in input order
sequence_transactions_mut_unsorted(txs) ==
    LET n == Len(txs)
        first(i) == CHOOSE j \in 1..n :
                        /\ txs[j].from = txs[i].from
                        /\ \A m \in 1..(j - 1) : txs[m].from # txs[i].from
        before(j, i) ==
            \/ first(j) < first(i)
            \/ first(j) = first(i) /\ j < i
        rank(i) == Cardinality({j \in 1..n : before(j, i)})
    IN  [p \in 1..n |-> txs[CHOOSE i \in 1..n : rank(i) = p - 1]]

sequence_transactions_mut_text_order(txs) ==
    LET n == Len(txs)
        key(i) == Decimal(txs[i].nonce)
        less(a, b) == \E k \in 1..Len(b) :
                         /\ \A m \in 1..(k - 1) : m <= Len(a) /\ a[m] = b[m]
                         /\ k > Len(a) \/ a[k] < b[k]
        first(i) == CHOOSE j \in 1..n :
                        /\ txs[j].from = txs[i].from
                        /\ \A m \in 1..(j - 1) : txs[m].from # txs[i].from
        before(j, i) ==
            \/ first(j) < first(i)
            \/ /\ first(j) = first(i)
               /\ \/ less(key(j), key(i))
                  \/ key(j) = key(i) /\ j < i
        rank(i) == Cardinality({j \in 1..n : before(j, i)})
    IN  [p \in 1..n |-> txs[CHOOSE i \in 1..n : rank(i) = p - 1]]

sequence_transactions(txs) ==
    LET n == Len(txs)
        first(i) == CHOOSE j \in 1..n :
                        /\ txs[j].from = txs[i].from
                        /\ \A m \in 1..(j - 1) : txs[m].from # txs[i].from
        before(j, i) ==
            \/ first(j) < first(i)
            \/ /\ first(j) = first(i)
               /\ \/ txs[j].nonce < txs[i].nonce
                  \/ txs[j].nonce = txs[i].nonce /\ j < i
        rank(i) == Cardinality({j \in 1..n : before(j, i)})
    IN  [p \in 1..n |-> txs[CHOOSE i \in 1..n : rank(i) = p - 1]]

\* what the loop of count_votes reads from one transaction: the vote, the project
\* id str(int(project_id_str)) and the account; ok = FALSE is ValueError, from the
\* unpacking of the split or from int()
VoteOfMutRawProject(tx) ==
    LET parts == split(tx.memo)
        n == IF Len(parts) = 2 THEN IntStr(parts[2]) ELSE [ok |-> FALSE]
    IN  IF n.ok
        THEN [ok |-> TRUE, vote |-> parts[1], project_id |-> parts[2], account |-> tx.from]
        ELSE [ok |-> FALSE]

VoteOf(tx) ==
    LET parts == split(tx.memo)
        n == IF Len(parts) = 2 THEN IntStr(parts[2]) ELSE [ok |-> FALSE]
    IN  IF n.ok
        THEN [ok |-> TRUE, vote |-> parts[1], project_id |-> n.str, account |-> tx.from]
        ELSE [ok |-> FALSE]

\* latest_votes after the loop: latest_votes[project_id][account] = vote, each
\* assignment overwriting the one before
LatestVotesMutPerProject(txs) ==
    LET v(i) == VoteOf(txs[i])
        ps == {v(i).project_id : i \in 1..Len(txs)}
        of(p) == {i \in 1..Len(txs) : v(i).project_id = p}
        last(p) == CHOOSE i \in of(p) : \A j \in of(p) : j <= i
    IN  [p \in ps |-> [a \in {v(last(p)).account} |-> v(last(p)).vote]]

LatestVotes(txs) ==
    LET v(i) == VoteOf(txs[i])
        ps == {v(i).project_id : i \in 1..Len(txs)}
        of(p, a) == {i \in 1..Len(txs) : v(i).project_id = p /\ v(i).account = a}
    IN  [p \in ps |->
            [a \in {v(i).account : i \in {j \in 1..Len(txs) : v(j).project_id = p}} |->
                v(CHOOSE i \in of(p, a) : \A j \in of(p, a) : j <= i).vote]]

\* list(a_set): the elements once each, in an order the set's hashing decides
ListsOf(S) == {l \in [1..Cardinality(S) -> S] : {l[i] : i \in 1..Cardinality(S)} = S}

\* set(account for account, v in votes.items() if v == vote)
VotersMutUnfiltered(votes, vote) == DOMAIN votes

Voters(votes, vote) == {account \in DOMAIN votes : votes[account] = vote}

\* the vote_counts the second loop of count_votes can build from latest_votes
Materialize(latest_votes) ==
    LET yes_votes(p) == Voters(latest_votes[p], Yes)
        no_votes(p) == Voters(latest_votes[p], No)
    IN  {vc \in [DOMAIN latest_votes ->
                    UNION {[yes_votes : [count : {Cardinality(yes_votes(p))},
                                         addresses : ListsOf(yes_votes(p))],
                            no_votes : [count : {Cardinality(no_votes(p))},
                                        addresses : ListsOf(no_votes(p))]]
                           : p \in DOMAIN latest_votes}] :
            \A p \in DOMAIN latest_votes :
                /\ vc[p].yes_votes.count = Cardinality(yes_votes(p))
                /\ {vc[p].yes_votes.addresses[i] : i \in 1..Len(vc[p].yes_votes.addresses)}
                       = yes_votes(p)
                /\ vc[p].no_votes.count = Cardinality(no_votes(p))
                /\ {vc[p].no_votes.addresses[i] : i \in 1..Len(vc[p].no_votes.addresses)}
                       = no_votes(p)}

\* VoteCountingPipeline.count_votes: ValueError, or the results it can return
count_votes(txs) ==
    IF \E i \in 1..Len(txs) : ~VoteOf(txs[i]).ok
    THEN [ok |-> FALSE, error |-> ValueError, results |-> {}]
    ELSE [ok |-> TRUE, error |-> NoError, results |-> Materialize(LatestVotes(txs))]

(***************************************************************************)
(* Inputs.                                                                 *)
(***************************************************************************)
Tab == <<9>>
Pieces == {Yes, No, Space, Tab, <<52, 50>>, <<48, 48, 55>>, <<178>>, <<43>>, <<45>>}
         \* yes no SP TAB 42 007 superscript-2 + -

RECURSIVE MessagesOf(_)
MessagesOf(n) ==
    IF n = 0 THEN {<<>>}
    ELSE LET shorter == MessagesOf(n - 1)
         IN  shorter \cup {m \o p : m \in shorter, p \in Pieces}

\* the decoded messages of the codec runs
Messages == MessagesOf(MaxPieces)

Yes42 == Yes \o Space \o <<52, 50>>
Yes7 == Yes \o <<32, 55>>
No7 == No \o <<32, 55>>
No007 == No \o Space \o <<48, 48, 55>>
YesSuper2 == Yes \o Space \o <<178>>

\* a memo whose payload is cut after `cut` bytes, with a right or a wrong checksum
RawMemo(b58, version, length, body, cut, goodsum) ==
    LET payload == Slice(<<version, 1, length>> \o body, 1, cut)
        sum == Digest(payload)
    IN  [b58 |-> b58,
         data |-> payload \o (IF goodsum THEN sum ELSE [sum EXCEPT ![1] = (@ + 1) % 256])]

DamagedBodies == {Utf8Encode(Yes42), Utf8Encode(<<178>>) \o Pad(2), <<255, 55>>, <<178, 55>>}

DamagedMemos ==
    {RawMemo(b58, version, length, body, cut, goodsum) :
        b58 \in BOOLEAN, version \in {MemoVersionByte, MemoVersionByte + 1},
        length \in {0, 2, 6, 7}, body \in DamagedBodies, cut \in {0, 1, 2, 3, 5, 9},
        goodsum \in BOOLEAN}
    \cup {[b58 |-> TRUE, data |-> d] : d \in {<<>>, <<20>>, <<20, 1, 0>>}}

MemoInputs == {EncodeMemo(m) : m \in Messages} \cup DamagedMemos

\* the windows of the runs, in ticks: [2 ms, 3 ms], one with both ends between
\* two milliseconds, and one that holds every block
ExactWindow == <<2 * TicksPerMs, 3 * TicksPerMs>>
BetweenWindow == <<TicksPerMs + 1, 3 * TicksPerMs + 1>>
WideWindow == <<0, (MaxHeight + 2) * TicksPerMs>>
Windows == {ExactWindow, BetweenWindow, WideWindow}

Margins == (0 - 1)..MaxMargin

\* the window and the margin of an aggregator run: every margin with the wide
\* window, no margin and a margin of one with the others
Configs == {c \in Windows \X Margins : c[1] = WideWindow \/ c[2] \in {0, 1}}

\* what the chain API answers at time `stamp`: the blocks lo..hi, each with one
\* vote of SenderA whose id <<height, stamp>> tells the answers apart.  The chain
\* reorganises between an odd and the next even answer: the blocks of an even
\* answer are replacements, dated one millisecond later and voting no
SnapshotBlock(h, stamp) ==
    [blockHeight |-> h, date |-> h + ((stamp + 1) % 2),
     userCommands |-> <<VoteTx(<<h, stamp>>, SenderA,
                               IF stamp % 2 = 1 THEN Yes7 ELSE No7, h)>>]

Snapshot(lo, hi, stamp) ==
    [k \in {"bestChain"} |-> [i \in 1..(hi - lo + 1) |-> SnapshotBlock(lo + i - 1, stamp)]]

\* the transactions of a pipeline input, with the date of the block of each
BaseTx(i) == VoteTx(<<i, 0>>, SenderA, Yes7, 9)

TxChoices(i) ==
    {[date |-> 2, tx |-> VoteTx(<<i, 0>>, SenderA, Yes7, 9)],
     [date |-> 2, tx |-> VoteTx(<<i, 0>>, SenderA, No7, 9)],
     [date |-> 2, tx |-> VoteTx(<<i, 0>>, SenderA, No7, 10)],
     [date |-> 2, tx |-> VoteTx(<<i, 0>>, SenderA, Yes42, 10)]}
    \cup {[date |-> 2, tx |-> VoteTx(<<i, 0>>, SenderB, Yes7, 9)],
          [date |-> 2, tx |-> VoteTx(<<i, 0>>, SenderB, No007, 10)],
          [date |-> 2, tx |-> VoteTx(<<i, 0>>, SenderB, YesSuper2, 9)]}
    \cup {[date |-> d, tx |-> BaseTx(i)] : d \in {1, 3, 4}}
    \cup {[date |-> 2, tx |-> DropField(BaseTx(i), f)] :
             f \in {"to", "kind", "memo", "id", "fee"}}
    \cup {[date |-> 2, tx |-> SetField(BaseTx(i), "to", OtherAddress)],
          [date |-> 2, tx |-> SetField(BaseTx(i), "kind", "STAKE_DELEGATION")],
          [date |-> 2, tx |-> SetField(BaseTx(i), "memo", EncodeMemo(Yes))],
          [date |-> 2, tx |-> SetField(BaseTx(i), "memo",
                                  RawMemo(TRUE, MemoVersionByte, 5, Utf8Encode(Yes7), 8, FALSE))]}

\* the block lists of n blocks at heights 1..n, one transaction in each
RECURSIVE BlockLists(_)
BlockLists(n) ==
    IF n = 0 THEN {<<>>}
    ELSE {Append(c, [blockHeight |-> n, date |-> t.date, userCommands |-> <<t.tx>>]) :
             c \in BlockLists(n - 1), t \in TxChoices(n)}

\* the query results of n blocks
ChainsOf(n) == {[k \in {"bestChain"} |-> c] : c \in BlockLists(n)}

Chains == UNION {ChainsOf(n) : n \in 0..MaxTxs}

\* the object given to VoteCountingPipeline as graphql_client: a GraphQLClient,
\* whose query fails or not, or, as main.py and the tests give it, a
\* GraphQLQueryAggregator, whose store holds a discontinuity or not
GraphQLClient(fails) == [kind |-> "GraphQLClient", fails |-> fails]
GraphQLQueryAggregator(fails) == [kind |-> "GraphQLQueryAggregator", fails |-> fails]

Clients == {GraphQLClient(f) : f \in BOOLEAN} \cup {GraphQLQueryAggregator(f) : f \in BOOLEAN}

\* the public methods of the two classes
Methods(kind) ==
    IF kind = "GraphQLClient" THEN {"execute_query"}
    ELSE {"retrieve_and_store", "retrieve_and_store_from_file",
          "retrieve_combined_transactions"}

\* the answers of the chain to the query of a run
RunChains == UNION {ChainsOf(n) : n \in 0..(MaxTxs - 1)}

AttributeError(name) == [type |-> "AttributeError", name |-> name]
TypeError(name) == [type |-> "TypeError", name |-> name]
TransportError == [type |-> "TransportError"]

\* a call of self.client.execute_query, and one of save_results
QueryCall == [on |-> "client", method |-> "execute_query"]
SaveCall(args, file) == [on |-> "pipeline", method |-> "save_results", args |-> args, file |-> file]

\* the end of run() once count_votes has returned or raised
Counted(c) ==
    IF ~c.ok THEN [raised |-> c.error, calls |-> <<QueryCall>>, results |-> {}]
    ELSE [raised |-> NoError, calls |-> <<QueryCall>>, results |-> c.results]

\* the rest of run() once filter_transactions has returned or raised
Filtered(f) ==
    IF ~f.ok THEN [raised |-> f.error, calls |-> <<QueryCall>>, results |-> {}]
    ELSE Counted(count_votes(sequence_transactions(f.filtered)))

\* VoteCountingPipeline.run up to its call of save_results: the exception that
\* ends it or NoError, the calls made on the client, the tallies count_votes can
\* return
run(injected, result, start, end) ==
    IF "execute_query" \notin Methods(injected.kind)
    THEN [raised |-> AttributeError("execute_query"), calls |-> <<>>, results |-> {}]
    ELSE IF injected.fails
    THEN [raised |-> TransportError, calls |-> <<QueryCall>>, results |-> {}]
    ELSE Filtered(filter_transactions(get_transactions(result), start, end))

\* the count command started with the output file chosen
CommandCall(output_file) == [on |-> "main", method |-> "run_vote_counting", args |-> <<output_file>>]

\* args.output or config.OUTPUT_FILE
OutputFiles == {"vote_counts.json", "out.json"}

(***************************************************************************)
(* The state machine.                                                      *)
(***************************************************************************)
Idle ==
    /\ transactions = <<>> /\ filtered = <<>> /\ sequenced = <<>>
    /\ vote_counts = <<>> /\ error = NoError
    /\ message = <<>> /\ valid = FALSE
    /\ clock = 1 /\ db = <<>>
    /\ source = "none"
    /\ calls = <<>> /\ exit_status = 0
    /\ previous = [ran |-> FALSE, permuted |-> FALSE, tally |-> <<>>]

\* the aggregator and the pipeline constructed over an empty store
InitAggregate ==
    /\ pc = "aggregate"
    /\ responses = <<>>
    /\ \E c \in Configs : /\ start_date = c[1][1] /\ end_date = c[1][2]
                           /\ recent_blocks_to_ignore = c[2]
    /\ memo = None
    /\ client = GraphQLClient(FALSE)
    /\ Idle

\* the pipeline constructed, and the chain's answer it is going to read
InitPipeline ==
    /\ pc = "pipeline"
    /\ responses \in {<<c>> : c \in Chains}
    /\ start_date = ExactWindow[1] /\ end_date = ExactWindow[2]
    /\ recent_blocks_to_ignore = 0
    /\ memo = None
    /\ client = GraphQLClient(FALSE)
    /\ Idle

\* the pipeline constructed, and a memo for its codec
InitCodec ==
    /\ pc = "codec"
    /\ responses = <<>>
    /\ start_date = 0 /\ end_date = 0
    /\ recent_blocks_to_ignore = 0
    /\ memo \in MemoInputs
    /\ client = GraphQLClient(FALSE)
    /\ Idle

\* a pipeline constructed over an injected object, and the chain's answer to a query
InitRun ==
    /\ pc = "run"
    /\ responses \in {<<c>> : c \in RunChains}
    /\ start_date = ExactWindow[1] /\ end_date = ExactWindow[2]
    /\ recent_blocks_to_ignore = 0
    /\ memo = None
    /\ client \in Clients
    /\ Idle

Init == InitAggregate \/ InitPipeline \/ InitCodec \/ InitRun

\* a column value is NULL or <<number>>
NULL == <<>>

BlockDates(result) == {result["bestChain"][i].date : i \in 1..Len(result["bestChain"])}

\* GraphQLQueryAggregator.retrieve_and_store
retrieve_and_store(lo, hi) ==
    /\ pc = "aggregate"
    /\ Len(db) < MaxSnapshots
    /\ LET result == Snapshot(lo, hi, clock)
           dates == BlockDates(result)
       IN  db' = Append(db,
                   [execution_timestamp |-> clock,
                    response |-> result,
                    min_block_timestamp |->
                        IF dates = {} THEN NULL
                        ELSE <<CHOOSE d \in dates : \A e \in dates : d <= e>>,
                    max_block_timestamp |->
                        IF dates = {} THEN NULL
                        ELSE <<CHOOSE d \in dates : \A e \in dates : d >= e>>,
                    endpoint |-> "endpoint"])
    /\ clock' = clock + 1
    /\ UNCHANGED <<client, calls, exit_status, previous>>
    /\ UNCHANGED <<pc, source, responses, start_date, end_date, recent_blocks_to_ignore,
                   transactions, filtered, sequenced, vote_counts, error,
                   memo, message, valid>>

\* the WHERE clause of retrieve_combined_transactions.  The two columns have TEXT
\* affinity and the parameters are floats, so SQLite compares texts: a column
\* "1725148800000" against "1725148800000.0".  With as many digits before the
\* point on both sides, a column is below the parameter when its number is at
\* most the parameter's whole part, and above it when its number is greater.
\* NULL (a snapshot without blocks) matches nothing.
WhereClause(row, start, end) ==
    /\ row.min_block_timestamp # NULL
    /\ row.max_block_timestamp # NULL
    /\ row.min_block_timestamp[1] <= end \div TicksPerMs
    /\ row.max_block_timestamp[1] > start \div TicksPerMs

\* ORDER BY execution_timestamp
OrderByExecutionTimestamp(rows) ==
    LET n == Len(rows)
        rank(i) == Cardinality({j \in 1..n :
                       \/ rows[j].execution_timestamp < rows[i].execution_timestamp
                       \/ rows[j].execution_timestamp = rows[i].execution_timestamp /\ j < i})
    IN  [p \in 1..n |-> rows[CHOOSE i \in 1..n : rank(i) = p - 1]]

\* the end of a call of _get_transactions_from_response
Returned(r, next) ==
    /\ responses' = r.responses
    /\ IF r.ok
       THEN /\ transactions' = r.transactions
            /\ pc' = next
            /\ UNCHANGED error
       ELSE /\ error' = r.error
            /\ pc' = "discontinuity"
            /\ UNCHANGED transactions

\* GraphQLQueryAggregator.retrieve_combined_transactions(start_date, end_date)
retrieve_combined_transactions ==
    /\ pc = "aggregate"
    /\ LET rows == OrderByExecutionTimestamp(
                       SelectSeq(db, LAMBDA row : WhereClause(row, start_date, end_date)))
           responses_as_dicts == [i \in 1..Len(rows) |-> rows[i].response]
       IN  Returned(_get_transactions_from_response(
                        responses_as_dicts, start_date, end_date, recent_blocks_to_ignore),
                    "retrieved")
    /\ source' = "retrieve_combined_transactions"
    /\ UNCHANGED <<client, calls, exit_status, previous>>
    /\ UNCHANGED <<clock, db, start_date, end_date, recent_blocks_to_ignore,
                   filtered, sequenced, vote_counts, memo, message, valid>>

Reverse(s) == [i \in 1..Len(s) |-> s[Len(s) + 1 - i]]

\* a caller's own call of _get_transactions_from_response on the stored snapshots:
\* with or without the key execution_timestamp in each, oldest or newest first;
\* the caller does nothing with the list
CallOnSnapshots(keyed, newest_first) ==
    /\ pc = "aggregate"
    /\ db # <<>>
    /\ LET given == [i \in 1..Len(db) |->
                       IF keyed
                       THEN SetField(db[i].response, "execution_timestamp",
                                     db[i].execution_timestamp)
                       ELSE db[i].response]
       IN  Returned(_get_transactions_from_response(
                        IF newest_first THEN Reverse(given) ELSE given,
                        start_date, end_date, recent_blocks_to_ignore),
                    "returned")
    /\ source' = "_get_transactions_from_response"
    /\ UNCHANGED <<client, calls, exit_status, previous>>
    /\ UNCHANGED <<clock, db, start_date, end_date, recent_blocks_to_ignore,
                   filtered, sequenced, vote_counts, memo, message, valid>>

\* the same call on one query result, as the tests make it
CallOnResult ==
    /\ pc = "pipeline"
    /\ Returned(_get_transactions_from_response(
                    responses, start_date, end_date, recent_blocks_to_ignore),
                "retrieved")
    /\ source' = "_get_transactions_from_response"
    /\ UNCHANGED <<client, calls, exit_status, previous>>
    /\ UNCHANGED <<clock, db, start_date, end_date, recent_blocks_to_ignore,
                   filtered, sequenced, vote_counts, memo, message, valid>>

\* VoteCountingPipeline.get_transactions, the query answering responses[1]
GetTransactions ==
    /\ pc = "pipeline"
    /\ transactions' = get_transactions(responses[1])
    /\ pc' = "retrieved"
    /\ source' = "get_transactions"
    /\ UNCHANGED <<client, calls, exit_status, previous>>
    /\ UNCHANGED <<clock, db, responses, start_date, end_date, recent_blocks_to_ignore,
                   filtered, sequenced, vote_counts, error, memo, message, valid>>

\* VoteCountingPipeline.filter_transactions(transactions)
FilterTransactions ==
    /\ pc = "retrieved"
    /\ LET r == filter_transactions(transactions, start_date, end_date)
       IN  IF r.ok
           THEN /\ filtered' = r.filtered
                /\ pc' = "filtered"
                /\ UNCHANGED error
           ELSE /\ error' = r.error
                /\ pc' = "failed"
                /\ UNCHANGED filtered
    /\ UNCHANGED <<client, calls, exit_status, previous>>
    /\ UNCHANGED <<source, clock, db, responses, start_date, end_date, recent_blocks_to_ignore,
                   transactions, sequenced, vote_counts, memo, message, valid>>

\* VoteCountingPipeline.sequence_transactions(filtered)
SequenceTransactions ==
    /\ pc = "filtered"
    /\ sequenced' = sequence_transactions(filtered)
    /\ pc' = "sequenced"
    /\ UNCHANGED <<client, calls, exit_status, previous>>
    /\ UNCHANGED <<source, clock, db, responses, start_date, end_date, recent_blocks_to_ignore,
                   transactions, filtered, vote_counts, error, memo, message, valid>>

\* VoteCountingPipeline.count_votes(sequenced)
CountVotes ==
    /\ pc = "sequenced"
    /\ LET r == count_votes(sequenced)
       IN  IF r.ok
           THEN /\ vote_counts' \in r.results
                /\ pc' = "counted"
                /\ UNCHANGED error
           ELSE /\ error' = r.error
                /\ pc' = "failed"
                /\ UNCHANGED vote_counts
    /\ UNCHANGED <<client, calls, exit_status, previous>>
    /\ UNCHANGED <<source, clock, db, responses, start_date, end_date, recent_blocks_to_ignore,
                   transactions, filtered, sequenced, memo, message, valid>>

\* VoteCountingPipeline.decode_memo(memo)
DecodeMemo ==
    /\ pc = "codec"
    /\ message' = decode_memo(memo)
    /\ pc' = "decoded"
    /\ UNCHANGED <<client, calls, exit_status, previous>>
    /\ UNCHANGED <<source, clock, db, responses, start_date, end_date, recent_blocks_to_ignore,
                   transactions, filtered, sequenced, vote_counts, error, memo, valid>>

\* VoteCountingPipeline.is_valid_memo(memo)
IsValidMemo ==
    /\ pc = "codec"
    /\ valid' = is_valid_memo(memo)
    /\ message' = decode_memo(memo)
    /\ pc' = "validated"
    /\ UNCHANGED <<client, calls, exit_status, previous>>
    /\ UNCHANGED <<source, clock, db, responses, start_date, end_date, recent_blocks_to_ignore,
                   transactions, filtered, sequenced, vote_counts, error, memo>>

\* VoteCountingPipeline.run(): save_results writes the tally to vote_counts.json
Run ==
    /\ pc = "run"
    /\ \E r \in {run(client, responses[1], start_date, end_date)} :
           IF r.raised # NoError
           THEN /\ error' = r.raised
                /\ calls' = calls \o r.calls
                /\ pc' = "run_raised"
                /\ UNCHANGED vote_counts
           ELSE \E tally \in r.results :
                /\ vote_counts' = tally
                /\ calls' = calls \o r.calls \o <<SaveCall(<<tally>>, "vote_counts.json")>>
                /\ pc' = "run_returned"
                /\ UNCHANGED error
    /\ source' = "run"
    /\ UNCHANGED <<clock, db, responses, start_date, end_date, recent_blocks_to_ignore,
                   transactions, filtered, sequenced, memo, message, valid,
                   client, exit_status, previous>>

\* the count command, main() calling run_vote_counting: the pipeline is built
\* over a GraphQLQueryAggregator; after run() a second save_results is called
\* with two arguments; every exception ends in sys.exit(1)
CountCommand(output_file) ==
    /\ pc = "run"
    /\ client.kind = "GraphQLQueryAggregator"
    /\ \E r \in {run(client, responses[1], start_date, end_date)} :
           IF r.raised # NoError
           THEN /\ error' = r.raised
                /\ calls' = <<CommandCall(output_file)>> \o r.calls
                /\ UNCHANGED vote_counts
           ELSE \E tally \in r.results :
                /\ vote_counts' = tally
                /\ calls' = <<CommandCall(output_file)>> \o r.calls \o <<SaveCall(<<tally>>, "vote_counts.json")>>
                /\ error' = TypeError("save_results")
    /\ exit_status' = 1
    /\ pc' = "exited"
    /\ source' = "main"
    /\ UNCHANGED <<clock, db, responses, start_date, end_date, recent_blocks_to_ignore,
                   transactions, filtered, sequenced, memo, message, valid,
                   client, previous>>

\* a second pass of filter, sequence and count over the list that
\* get_transactions returned
RunAgain ==
    /\ pc = "counted"
    /\ source = "get_transactions"
    /\ ~previous.ran /\ ~previous.permuted
    /\ previous' = [ran |-> TRUE, permuted |-> FALSE, tally |-> vote_counts]
    /\ pc' = "retrieved"
    /\ filtered' = <<>> /\ sequenced' = <<>> /\ vote_counts' = <<>>
    /\ UNCHANGED <<source, clock, db, responses, start_date, end_date,
                   recent_blocks_to_ignore, transactions, error, memo, message, valid,
                   client, calls, exit_status>>

\* the rearrangements of a list of n elements that move at least one
Orders(n) ==
    {f \in [1..n -> 1..n] :
        /\ \A i, j \in 1..n : i # j => f[i] # f[j]
        /\ \E i \in 1..n : f[i] # i}

\* filter, sequence and count run over a rearrangement of the list that
\* get_transactions returned, after the pass over the list itself
RunPermuted ==
    /\ pc = "counted"
    /\ source = "get_transactions"
    /\ ~previous.ran /\ ~previous.permuted
    /\ previous' = [ran |-> FALSE, permuted |-> TRUE, tally |-> vote_counts]
    /\ \E order \in Orders(Len(transactions)) :
         \E given \in {[i \in 1..Len(transactions) |-> transactions[order[i]]]} :
         \E f \in {filter_transactions(given, start_date, end_date)} :
            /\ transactions' = given
            /\ IF ~f.ok
               THEN /\ error' = f.error
                    /\ pc' = "failed"
                    /\ filtered' = <<>> /\ sequenced' = <<>> /\ vote_counts' = <<>>
               ELSE \E s \in {sequence_transactions(f.filtered)} :
                    \E c \in {count_votes(s)} :
                       /\ filtered' = f.filtered
                       /\ sequenced' = s
                       /\ IF ~c.ok
                          THEN /\ error' = c.error
                               /\ pc' = "failed"
                               /\ vote_counts' = <<>>
                          ELSE /\ vote_counts' \in c.results
                               /\ pc' = "counted"
                               /\ UNCHANGED error
    /\ UNCHANGED <<source, clock, db, responses, start_date, end_date,
                   recent_blocks_to_ignore, memo, message, valid,
                   client, calls, exit_status>>

Next ==
    \/ \E lo \in 1..MaxHeight :
         \E hi \in (lo - 1)..MaxHeight : retrieve_and_store(lo, hi)
    \/ retrieve_combined_transactions
    \/ \E keyed \in BOOLEAN, newest_first \in BOOLEAN :
         ~(keyed /\ newest_first) /\ CallOnSnapshots(keyed, newest_first)
    \/ CallOnResult
    \/ GetTransactions
    \/ FilterTransactions
    \/ SequenceTransactions
    \/ CountVotes
    \/ DecodeMemo
    \/ IsValidMemo
    \/ Run
    \/ \E output_file \in OutputFiles : CountCommand(output_file)
    \/ RunAgain
    \/ RunPermuted

Spec == Init /\ [][Next]_vars

(***************************************************************************)
(* Properties.                                                             *)
(***************************************************************************)
\* the transaction list in `transactions` came from the reconciliation
Reconciled ==
    /\ source \in {"retrieve_combined_transactions", "_get_transactions_from_response"}
    /\ pc # "discontinuity"

\* the blocks of all the snapshots read
BlocksRead ==
    UNION {{responses[r]["bestChain"][b] : b \in 1..Len(responses[r]["bestChain"])} :
             r \in 1..Len(responses)}

\* the merged heights
HeightsRead == {b.blockHeight : b \in BlocksRead}

\* the versions of a height among the snapshots read
Versions(h) == {b \in BlocksRead : b.blockHeight = h}

\* the height and the snapshot stamp in the id of a stored snapshot's transaction
HeightOf(tx) == tx["id"][1]
StampOf(tx) == tx["id"][2]

EmittedHeights ==
    {HeightOf(transactions[i]) : i \in {j \in 1..Len(transactions) : HasKey(transactions[j], "id")}}

Keyed == \A r \in 1..Len(responses) : HasKey(responses[r], "execution_timestamp")

NewestStamp(h) ==
    LET stamps == {StampOf(b.userCommands[1]) : b \in Versions(h)}
    IN  CHOOSE t \in stamps : \A u \in stamps : u <= t

\* C1: of the versions of a height in snapshots retrieved at different times,
\* reconciliation emits the one of the most recently retrieved snapshot, on a
\* call of retrieve_combined_transactions and on a direct call with the
\* retrieval times given
C1_MostRecentSnapshotWins ==
    (/\ Reconciled
     /\ \/ source = "retrieve_combined_transactions"
        \/ source = "_get_transactions_from_response" /\ db # <<>> /\ Keyed)
    => \A i \in 1..Len(transactions) :
           StampOf(transactions[i]) = NewestStamp(HeightOf(transactions[i]))

GapFree(hs) == \A h \in hs : (\A g \in hs : h <= g) \/ (h - 1) \in hs

\* C2: reconciliation returns exactly when the merged heights have no gap, and
\* then its transactions come in ascending heights; with a gap it raises
\* BlockDiscontinuityError naming the two merged heights around the lowest gap
\* and returns no transaction list
C2_ContiguityGate ==
    /\ Reconciled =>
          /\ GapFree(HeightsRead)
          /\ \A i \in 1..Len(transactions), j \in 1..Len(transactions) :
                (i < j /\ HasKey(transactions[i], "id") /\ HasKey(transactions[j], "id"))
                => HeightOf(transactions[i]) < HeightOf(transactions[j])
    /\ pc = "discontinuity" =>
          /\ ~GapFree(HeightsRead)
          /\ error.type = "BlockDiscontinuityError"
          /\ error.prev \in HeightsRead /\ error.curr \in HeightsRead
          /\ error.curr > error.prev + 1
          /\ \A h \in HeightsRead : ~(error.prev < h /\ h < error.curr)
          /\ GapFree({h \in HeightsRead : h <= error.prev})
          /\ transactions = <<>>

C2_Witness ==
    /\ pc = "discontinuity"
    /\ source = "retrieve_combined_transactions"
    /\ error.prev = 1 /\ error.curr = 3

\* the filter criterion: a recipient field, the burn address, kind PAYMENT, a memo
\* that is a valid vote, a block timestamp inside the window
Accepted(tx) ==
    /\ HasKey(tx, "to") /\ tx["to"] = BURN_ADDRESS
    /\ HasKey(tx, "kind") /\ tx["kind"] = "PAYMENT"
    /\ HasKey(tx, "memo") /\ is_valid_memo(tx["memo"])
    /\ HasKey(tx, "blockDate")
    /\ start_date <= tx["blockDate"] * TicksPerMs
    /\ tx["blockDate"] * TicksPerMs <= end_date

AcceptedAt == {i \in 1..Len(transactions) : Accepted(transactions[i])}

\* the choice and the project key of an accepted transaction
ChoiceOf(tx) == split(decode_memo(tx["memo"]))[1]
ProjectOf(tx) == IntStr(split(decode_memo(tx["memo"]))[2]).str

Addresses(p, side) ==
    IF p \in DOMAIN vote_counts
    THEN {vote_counts[p][side].addresses[i] : i \in 1..Len(vote_counts[p][side].addresses)}
    ELSE {}

SideOf(choice) == IF choice = Yes THEN "yes_votes" ELSE "no_votes"
OtherSideOf(choice) == IF choice = Yes THEN "no_votes" ELSE "yes_votes"

\* C3: in the tally that filter, sequence and count return, a sender is listed
\* for a project in the set of the choice of a highest-nonce accepted vote of
\* that sender for that project and not in the other set, whatever the order of
\* the input; a sender without accepted vote for a project is in neither set
C3_LatestVoteWins ==
    pc = "counted" =>
        \A a \in {SenderA, SenderB},
           p \in {ProjectOf(transactions[i]) : i \in AcceptedAt} \cup DOMAIN vote_counts :
            LET mine == {i \in AcceptedAt : /\ transactions[i]["from"] = a
                                            /\ ProjectOf(transactions[i]) = p}
                tops == {i \in mine : \A j \in mine :
                            int(transactions[j]["nonce"]) <= int(transactions[i]["nonce"])}
            IN  IF mine = {}
                THEN a \notin Addresses(p, "yes_votes") \cup Addresses(p, "no_votes")
                ELSE \E i \in tops :
                        /\ a \in Addresses(p, SideOf(ChoiceOf(transactions[i])))
                        /\ a \notin Addresses(p, OtherSideOf(ChoiceOf(transactions[i])))

\* yes with nonce 9 and no with nonce 10, given in the other order: only in no_votes
C3_Witness ==
    /\ pc = "counted"
    /\ Len(transactions) = 2
    /\ AcceptedAt = {1, 2}
    /\ transactions[1]["from"] = SenderA /\ transactions[2]["from"] = SenderA
    /\ transactions[1]["nonce"] = Decimal(10) /\ ChoiceOf(transactions[1]) = No
    /\ transactions[2]["nonce"] = Decimal(9) /\ ChoiceOf(transactions[2]) = Yes
    /\ ProjectOf(transactions[1]) = <<55>> /\ ProjectOf(transactions[2]) = <<55>>
    /\ Addresses(<<55>>, "no_votes") = {SenderA}
    /\ Addresses(<<55>>, "yes_votes") = {}

\* C4: in every tally count_votes returns, the yes and the no addresses of a
\* project are disjoint, no address is listed twice, and each count is the
\* number of addresses listed
C4_TallyWellFormed ==
    pc = "counted" =>
        \A p \in DOMAIN vote_counts :
            LET yes == vote_counts[p].yes_votes
                no == vote_counts[p].no_votes
            IN  /\ Addresses(p, "yes_votes") \cap Addresses(p, "no_votes") = {}
                /\ Cardinality(Addresses(p, "yes_votes")) = Len(yes.addresses)
                /\ Cardinality(Addresses(p, "no_votes")) = Len(no.addresses)
                /\ yes.count = Len(yes.addresses)
                /\ no.count = Len(no.addresses)

\* the same vote cast twice by one sender is counted once
C4_Witness ==
    /\ pc = "counted"
    /\ Len(sequenced) = 2
    /\ sequenced[1].from = SenderA /\ sequenced[2].from = SenderA
    /\ sequenced[1].memo = Yes7 /\ sequenced[2].memo = Yes7
    /\ vote_counts[<<55>>].yes_votes = [count |-> 1, addresses |-> <<SenderA>>]
    /\ vote_counts[<<55>>].no_votes.count = 0

\* C5: the list filter_transactions returns holds exactly the transactions that
\* meet the filter criterion, in their order, and every address of the tally has
\* such a transaction with that project and choice
C5_FilterCriterion ==
    /\ pc \in {"filtered", "sequenced", "counted"} =>
          LET kept == SelectSeq(transactions, Accepted)
          IN  /\ Len(filtered) = Len(kept)
              /\ \A k \in 1..Len(kept) :
                    /\ filtered[k].id = kept[k]["id"]
                    /\ filtered[k].from = kept[k]["from"]
                    /\ filtered[k].nonce = int(kept[k]["nonce"])
                    /\ filtered[k].memo = decode_memo(kept[k]["memo"])
    /\ pc = "counted" =>
          \A p \in DOMAIN vote_counts, choice \in {Yes, No} :
              \A a \in Addresses(p, SideOf(choice)) :
                  \E i \in AcceptedAt :
                      /\ transactions[i]["from"] = a
                      /\ ProjectOf(transactions[i]) = p
                      /\ ChoiceOf(transactions[i]) = choice

\* of a vote and a delegation to the burn address, only the vote is kept
C5_Witness ==
    /\ pc = "filtered"
    /\ Len(transactions) = 2
    /\ transactions[1]["kind"] = "STAKE_DELEGATION"
    /\ transactions[1]["to"] = BURN_ADDRESS
    /\ is_valid_memo(transactions[1]["memo"])
    /\ Accepted(transactions[2])
    /\ Len(filtered) = 1
    /\ filtered[1].id = transactions[2]["id"]

PostFilter == pc \in {"filtered", "sequenced", "counted"}

\* C6: a transaction that lacks a required field never makes the run fail and is
\* never kept, on the list of get_transactions and on the list of the reconciler
C6_MalformedNeverFatal ==
    /\ pc = "failed" => error.type # "KeyError"
    /\ PostFilter =>
          \A i \in 1..Len(transactions) :
              ~ensure_required_fields(transactions[i]) =>
                  \/ ~HasKey(transactions[i], "id")
                  \/ \A k \in 1..Len(filtered) : filtered[k].id # transactions[i]["id"]

\* the memos that encode a message of the model
EncodedMemos == {EncodeMemo(m) : m \in Messages}

\* the payload of a memo: its bytes without the checksum
PayloadOf(m) == Slice(m.data, 1, Len(m.data) - ChecksumLen)

\* C7: decode_memo returns for every memo; for the memo that encodes a message
\* it returns that message; it returns the empty string when a character is not
\* base58, the checksum fails, the first byte is not the version marker, the
\* payload has fewer than three bytes or the text bytes are not UTF-8; and
\* is_valid_memo rejects a memo whose message is empty
C7_MemoCodecTotality ==
    pc \in {"decoded", "validated"} =>
        LET payload == PayloadOf(memo)
            sum == Slice(memo.data, Len(memo.data) - ChecksumLen + 1, Len(memo.data))
        IN  /\ memo \in EncodedMemos => message \in Messages /\ EncodeMemo(message) = memo
            /\ memo = EncodeMemo(Yes42) => message = Yes42
            /\ ~memo.b58 => message = <<>>
            /\ sum # Digest(payload) => message = <<>>
            /\ Len(payload) < 3 => message = <<>>
            /\ Len(payload) >= 1 /\ payload[1] # MemoVersionByte => message = <<>>
            /\ Len(payload) >= 3 /\ ~Utf8Decode(Slice(payload, 4, 3 + payload[3])).ok
                  => message = <<>>
            /\ pc = "validated" /\ message = <<>> => ~valid

\* the round trip of "yes 42"
C7_Witness ==
    /\ pc = "decoded"
    /\ memo = EncodeMemo(Yes42)
    /\ message = Yes42

\* C8: is_valid_memo accepts a message exactly when its split has two tokens,
\* the first is "yes" or "no" and the second parses as a non-negative integer
C8_VoteFormatValidity ==
    pc = "validated" =>
        (valid <=> LET parts == split(message)
                   IN  /\ Len(parts) = 2
                       /\ parts[1] \in {Yes, No}
                       /\ IntStr(parts[2]).ok
                       /\ ~IntStr(parts[2]).negative)

\* the blocks of the stored snapshots
BlocksStored ==
    UNION {{db[r].response["bestChain"][b] : b \in 1..Len(db[r].response["bestChain"])} :
             r \in 1..Len(db)}

\* the reconciliation ran on the stored snapshots
FromStore ==
    /\ Reconciled
    /\ source = "retrieve_combined_transactions" \/ db # <<>>

\* a timestamp in milliseconds lies in [start_date, end_date]
Inside(date) == start_date <= date * TicksPerMs /\ date * TicksPerMs <= end_date

\* to the burn address, a payment, a valid vote
Eligible(tx) ==
    /\ HasKey(tx, "to") /\ tx["to"] = BURN_ADDRESS
    /\ HasKey(tx, "kind") /\ tx["kind"] = "PAYMENT"
    /\ HasKey(tx, "memo") /\ is_valid_memo(tx["memo"])

\* C9: reconciliation emits only transactions of blocks inside the window, and,
\* with no margin, those of every stored block whose timestamp is inside it, the
\* two ends included; filter_transactions keeps an otherwise acceptable
\* transaction exactly when its block's timestamp is inside the window
C9_InclusiveWindow ==
    /\ Reconciled => \A i \in 1..Len(transactions) : Inside(transactions[i]["blockDate"])
    /\ FromStore /\ recent_blocks_to_ignore <= 0 =>
          \A b \in BlocksStored :
              (\A c \in BlocksStored : c.blockHeight = b.blockHeight => Inside(c.date))
                  => b.blockHeight \in EmittedHeights
    /\ PostFilter =>
          \A i \in 1..Len(transactions) :
              Eligible(transactions[i]) /\ HasKey(transactions[i], "id") =>
                  (Inside(transactions[i]["blockDate"])
                      <=> \E k \in 1..Len(filtered) : filtered[k].id = transactions[i]["id"])

\* the heights among the k highest merged ones
Trimmed(k) == {h \in HeightsRead : Cardinality({g \in HeightsRead : g > h}) < k}

\* C10: with a margin k > 0 reconciliation emits nothing of the k highest merged
\* blocks, hence nothing when k is at least their number; the other blocks, and
\* with k <= 0 all the blocks, are emitted when inside the window
C10_ReorgTrim ==
    LET k == recent_blocks_to_ignore
    IN  /\ Reconciled /\ k > 0 =>
              /\ EmittedHeights \cap Trimmed(k) = {}
              /\ k >= Cardinality(HeightsRead) => transactions = <<>>
        /\ FromStore =>
              \A h \in HeightsRead \ Trimmed(k) :
                  (\A b \in Versions(h) : Inside(b.date)) => h \in EmittedHeights
        /\ FromStore /\ k <= 0 => Trimmed(k) = {}

\* three blocks inside the window and a margin of one: the highest is left out
C10_Witness ==
    /\ FromStore
    /\ pc = "retrieved"
    /\ recent_blocks_to_ignore = 1
    /\ HeightsRead = {1, 2, 3}
    /\ \A b \in BlocksRead : Inside(b.date)
    /\ EmittedHeights = {1, 2}

\* a reconciliation call was made, whatever its end
Reconciling ==
    source \in {"retrieve_combined_transactions", "_get_transactions_from_response"}

\* the merged heights right above a gap
AboveGap == {h \in HeightsRead : (h - 1) \notin HeightsRead /\ \E g \in HeightsRead : g < h}

\* C11: a gap among the merged heights makes reconciliation raise
\* BlockDiscontinuityError and return nothing, also when the gap lies among the
\* trailing k blocks the margin leaves out or among blocks outside the window
C11_TrimmedBlocksCount ==
    Reconciling /\ AboveGap # {} =>
        /\ pc = "discontinuity"
        /\ error.type = "BlockDiscontinuityError"
        /\ error.curr \in AboveGap
        /\ transactions = <<>>

\* heights 1 and 3 with a margin of two: both blocks are left out, the call raises
C11_Witness ==
    /\ pc = "discontinuity"
    /\ recent_blocks_to_ignore = 2
    /\ HeightsRead = {1, 3}
    /\ AboveGap = {3}
    /\ 3 \in Trimmed(recent_blocks_to_ignore) /\ 1 \in Trimmed(recent_blocks_to_ignore)

(***************************************************************************)
(* The call protocol of run() and the outcome of the count command.        *)
(***************************************************************************)

\* run() has returned or raised
RunEnded == pc \in {"run_returned", "run_raised"}

\* the calls of the method in the log, as positions
CallsOf(method) == {i \in DOMAIN calls : calls[i].method = method}

\* run() ended on one of the exceptions of filter_transactions and count_votes
RaisedOnData == pc = "run_raised" /\ error.type \in {"KeyError", "ValueError"}

\* C12: a run() over a source that does not fail, and over transactions that
\* make neither filter_transactions nor count_votes raise, returns, having
\* called retrieve_combined_transactions(start_date, end_date) on the injected
\* source exactly once and save_results exactly once with the tally it returns.
C12_RunCallProtocol ==
    RunEnded /\ ~client.fails /\ ~RaisedOnData =>
        /\ pc = "run_returned"
        /\ \E i \in DOMAIN calls :
               /\ CallsOf("retrieve_combined_transactions") = {i}
               /\ calls[i].on = "client"
               /\ calls[i].args = <<start_date, end_date>>
        /\ \E j \in DOMAIN calls :
               /\ CallsOf("save_results") = {j}
               /\ calls[j].args = <<vote_counts>>

\* the error a failing source of the kind raises: the aggregator's
\* reconciliation a BlockDiscontinuityError, the remote query a transport error
FailureOf(kind) ==
    IF kind = "GraphQLQueryAggregator" THEN "BlockDiscontinuityError" ELSE TransportError.type

\* the calls made on the injected source, as positions of the log
CallsOnClient == {i \in DOMAIN calls : calls[i].on = "client"}

\* C13: when the injected source fails during run(), run() raises the error
\* of the source, the source is called at most once (no retry), and
\* save_results is never called.
C13_FailFast ==
    RunEnded /\ client.fails =>
        /\ pc = "run_raised"
        /\ error.type = FailureOf(client.kind)
        /\ Cardinality(CallsOnClient) <= 1
        /\ CallsOf("save_results") = {}

\* the output file the command was started with
ChosenFile == calls[1].args[1]

\* C14: the count command ends with a non-zero exit status when its source
\* fails, and otherwise with status 0 and the tally written to the chosen
\* output file, whatever malformed transactions and memos the chain holds.
C14_CountOutcome ==
    pc = "exited" =>
        IF client.fails THEN exit_status # 0
        ELSE /\ exit_status = 0
             /\ \E i \in CallsOf("save_results") :
                    calls[i].file = ChosenFile /\ calls[i].args = <<vote_counts>>

(***************************************************************************)
(* The frame of reconciliation, empty inputs, and the tally as a function  *)
(* of the transaction list.                                                *)
(***************************************************************************)

\* a step that is a call of _get_transactions_from_response on the list held
\* in responses
CalledOnResponses == pc = "pipeline" /\ source' = "_get_transactions_from_response"

\* C15: a call of _get_transactions_from_response, returning or raising,
\* leaves every snapshot given to it, with its blocks and transaction
\* records, as it was before the call.
C15_SnapshotsOnlyRead == [][CalledOnResponses => responses' = responses]_vars

\* C16: a reconciliation that read no snapshot, or snapshots without blocks,
\* returns the empty transaction list and raises nothing; count_votes on the
\* empty list returns the empty tally and never raises.
C16_EmptyInputNoError ==
    /\ Reconciling /\ BlocksRead = {} =>
           /\ pc # "discontinuity"
           /\ error = NoError
           /\ transactions = <<>>
    /\ pc = "counted" /\ sequenced = <<>> => DOMAIN vote_counts = {}
    /\ pc = "failed" /\ error = ValueError => sequenced # <<>>

\* retrieve_combined_transactions selected no snapshot out of a store that
\* holds some, returned the empty list, and its tally is the empty tally
C16_Witness ==
    /\ pc = "counted"
    /\ source = "retrieve_combined_transactions"
    /\ db # <<>> /\ responses = <<>>
    /\ transactions = <<>> /\ sequenced = <<>>
    /\ DOMAIN vote_counts = {}

\* the addresses listed on one side of a project's entry
ListedIn(votes) == {votes.addresses[i] : i \in 1..Len(votes.addresses)}

\* two tallies with the same project keys, counts and address sets
SameTally(a, b) ==
    /\ DOMAIN a = DOMAIN b
    /\ \A p \in DOMAIN a : \A side \in {"yes_votes", "no_votes"} :
           /\ a[p][side].count = b[p][side].count
           /\ ListedIn(a[p][side]) = ListedIn(b[p][side])

Occurrences(list, tx) == Cardinality({i \in 1..Len(list) : list[i] = tx})

ValueOf(token) == int([i \in 1..Len(token) |-> AsciiDigit(token[i])])

\* the project key of the vote in a filtered transaction: the canonical
\* decimal text of the integer of its second token
KeyOf(tx) == Decimal(ValueOf(split(tx.memo)[2]))

\* C19: in a returned tally every project key is the canonical decimal text
\* of an integer and no two keys denote the same integer; every counted vote
\* is tallied under the key of its token's integer, and of one sender's votes
\* whose tokens denote the same integer the last of the sequence decides the
\* side, however each token is written.
C19_ProjectIdNormalized ==
    pc = "counted" =>
        /\ \A p \in DOMAIN vote_counts : p = Decimal(ValueOf(p))
        /\ \A p, q \in DOMAIN vote_counts : ValueOf(p) = ValueOf(q) => p = q
        /\ \A i \in 1..Len(sequenced) :
               LET mine == {j \in 1..Len(sequenced) :
                               /\ sequenced[j].from = sequenced[i].from
                               /\ KeyOf(sequenced[j]) = KeyOf(sequenced[i])}
                   last == CHOOSE j \in mine : \A m \in mine : m <= j
                   choice == split(sequenced[last].memo)[1]
               IN  /\ KeyOf(sequenced[i]) \in DOMAIN vote_counts
                   /\ sequenced[i].from \in Addresses(KeyOf(sequenced[i]), SideOf(choice))
                   /\ sequenced[i].from \notin
                          Addresses(KeyOf(sequenced[i]), OtherSideOf(choice))

\* a sender's "yes 7" with nonce 9 and "no 007" with nonce 10: one key "7",
\* the sender in its no_votes only
C19_Witness ==
    /\ pc = "counted"
    /\ Len(sequenced) = 2
    /\ sequenced[1].from = SenderB /\ sequenced[2].from = SenderB
    /\ sequenced[1].memo = Yes7 /\ sequenced[1].nonce = 9
    /\ sequenced[2].memo = No007 /\ sequenced[2].nonce = 10
    /\ DOMAIN vote_counts = {Decimal(7)}
    /\ Addresses(Decimal(7), "no_votes") = {SenderB}
    /\ Addresses(Decimal(7), "yes_votes") = {}

\* the project named in the memo of a filtered transaction, as written
NamedIn(tx) == split(tx.memo)[2]

\* C20: count_votes does not raise on a list that filter_transactions and
\* sequence_transactions returned, and in its tally the sender of every
\* accepted transaction is in exactly one of the yes and no sets of the
\* project its memo names.
C20_FilterToTallyTotal ==
    /\ ~(pc = "failed" /\ error = ValueError)
    /\ pc = "counted" =>
           \A i \in 1..Len(sequenced) :
               LET p == IntStr(NamedIn(sequenced[i])).str
                   yes == sequenced[i].from \in Addresses(p, "yes_votes")
                   no == sequenced[i].from \in Addresses(p, "no_votes")
               IN  yes # no

\* no sender has two accepted votes with the same nonce in the list
DistinctNonces ==
    \A i, j \in 1..Len(sequenced) :
        i # j /\ sequenced[i].from = sequenced[j].from =>
            sequenced[i].nonce # sequenced[j].nonce

\* C21: when no sender has two accepted votes with the same nonce, the pass
\* of filter_transactions, sequence_transactions and count_votes over a
\* rearranged list ends as the pass over the list did, with a tally of the
\* same project keys, counts and address sets.
C21_OrderIndependent ==
    previous.permuted =>
        /\ pc # "failed"
        /\ pc = "counted" /\ DistinctNonces => SameTally(previous.tally, vote_counts)

\* one sender's "no 7" with nonce 10 and "yes 7" with nonce 9 and their
\* rearrangement: the sender is in no_votes of "7" both times
C21_Witness ==
    /\ pc = "counted" /\ previous.permuted
    /\ Len(sequenced) = 2 /\ DistinctNonces
    /\ sequenced[1].from = SenderA /\ sequenced[2].from = SenderA
    /\ sequenced[1].memo = Yes7 /\ sequenced[2].memo = No7
    /\ ListedIn(previous.tally[Decimal(7)]["no_votes"]) = {SenderA}
    /\ Addresses(Decimal(7), "no_votes") = {SenderA}
    /\ Addresses(Decimal(7), "yes_votes") = {}

====
